---- MODULE Spec2Model ----
(***************************************************************************)
(* Model of the signaling server of src/api/index.ts: the process-wide     *)
(* room registry `rooms`, the per-connection closure variable              *)
(* `currentRoom`, and the four socket handlers register, signal,           *)
(* user-toggle-video and disconnect.  Each handler runs to completion      *)
(* (single-threaded event loop), so each is one atomic action.             *)
(*                                                                         *)
(* The transport (socket.io) is modelled by what the handlers use of it:   *)
(*   - on connection a socket is placed in the group named by its own id;  *)
(*   - socket.join(g) adds the socket to group g;                          *)
(*   - io.to(g).emit sends to every socket in group g;                     *)
(*   - socket.to(g).emit sends to every socket in group g that is not in   *)
(*     the group named socket.id (the operator is built with               *)
(*     exceptRooms = {socket.id});                                         *)
(*   - socket.emit sends to the socket itself;                             *)
(*   - on close the socket leaves all its groups before the "disconnect"   *)
(*     handler runs.                                                       *)
(* Room ids are ordinary strings chosen by the client; they may coincide   *)
(* with a connection id.  Names of Object.prototype properties are not     *)
(* among the modelled room ids.                                            *)
(***************************************************************************)
EXTENDS Naturals, Sequences, FiniteSets

VARIABLES
    rooms,        \* the registry: roomId -> (connectionId -> Peer)
    currentRoom,  \* per connection: the closure variable currentRoom
    status,       \* per connection: "idle" (not yet connected), "live", "gone"
    groups,       \* per connection: the transport groups the socket is in
    out,          \* per connection: messages delivered by the last handler
    regs,         \* number of register events handled so far
    usedRooms     \* the rooms register has been called for so far

vars == <<rooms, currentRoom, status, groups, out, regs, usedRooms>>

----------------------------------------------------------------------------
\* Bounds of the model

MaxRegs == 3

Conns == {"c1", "c2", "c3"}

\* the username each client registers under; usernames are not unique
ClientName(c) == IF c = "c1" THEN "alice" ELSE "bob"

\* the `from` arguments a client supplies (its own id or another one)
FromIds == {"c1", "c2"}

Payloads == {"sdp", "ice"}

\* roomId absent from the register event (username-only format)
Undefined == "<undefined>"

\* currentRoom before any register
Null == "<null>"

\* roomId arguments a client supplies; "c1" is also a connection id
RoomIdArgs == {Undefined, "", "default", "r1", "c1"}

----------------------------------------------------------------------------
\* Pure helpers

\* roomId ?? "default" instead of roomId || "default"
ResolveRoom_NullishOnly(roomId) ==
    IF roomId = Undefined THEN "default" ELSE roomId

\* const room = roomId || "default"
ResolveRoom(roomId) ==
    IF roomId = Undefined \/ roomId = "" THEN "default" ELSE roomId

RoomNames == {ResolveRoom(a) : a \in RoomIdArgs}

EmptyMap == [x \in {} |-> x]

NewPeer_VideoOn(username) == [username |-> username, isVideoEnabled |-> TRUE]

NewPeer(username) == [username |-> username, isVideoEnabled |-> FALSE]

\* rooms[room] exists (truthy)
HasRoom(rs, room) == room \in DOMAIN rs

\* rooms[room]?.[id] is truthy
HasPeer(rs, room, id) == room \in DOMAIN rs /\ id \in DOMAIN rs[room]

EnsureRoom_Reset(rs, room) ==
    [r \in DOMAIN rs \cup {room} |-> IF r = room THEN EmptyMap ELSE rs[r]]

\* if (!rooms[room]) rooms[room] = {}
EnsureRoom(rs, room) ==
    IF HasRoom(rs, room) THEN rs
    ELSE [r \in DOMAIN rs \cup {room} |-> IF r = room THEN EmptyMap ELSE rs[r]]

\* rooms[room][id] = peer
PutPeer(rs, room, id, peer) ==
    [rs EXCEPT ![room] =
        [x \in DOMAIN rs[room] \cup {id} |-> IF x = id THEN peer ELSE rs[room][x]]]

\* the delete takes the room's other entries with it
DeletePeer_ClearsRoom(rs, room, id) ==
    [rs EXCEPT ![room] = [x \in {} |-> rs[room][x]]]

\* delete rooms[room][id]
DeletePeer(rs, room, id) ==
    [rs EXCEPT ![room] = [x \in DOMAIN rs[room] \ {id} |-> rs[room][x]]]

CleanupRoom_Keep(rs, room) == rs

\* if (Object.keys(rooms[room]).length === 0) delete rooms[room]
CleanupRoom(rs, room) ==
    IF DOMAIN rs[room] = {} THEN [r \in DOMAIN rs \ {room} |-> rs[r]] ELSE rs

----------------------------------------------------------------------------
\* Transport

NoOut == [s \in Conns |-> <<>>]

\* sockets of group g
GroupMembers(st, gr, g) == {s \in Conns : st[s] = "live" /\ g \in gr[s]}

\* io.to(g): every socket in group g
ToGroup(st, gr, g) == GroupMembers(st, gr, g)

\* socket.to(g) of socket c: group g without the sockets of group c
ToOthers(st, gr, c, g) == GroupMembers(st, gr, g) \ GroupMembers(st, gr, c)

\* one copy of msg to each recipient
Emit(o, recipients, msg) ==
    [s \in Conns |-> IF s \in recipients THEN Append(o[s], msg) ELSE o[s]]

----------------------------------------------------------------------------
\* Messages

Introduction(peers) == [type |-> "introduction", peers |-> peers]

NewUserConnected(id, username) ==
    [type |-> "newUserConnected", id |-> id, username |-> username]

\* the sender's arguments in the wrong order
SignalMsg_Swapped(to, from, data) ==
    [type |-> "signal", to |-> from, from |-> to, data |-> data]

SignalMsg(to, from, data) ==
    [type |-> "signal", to |-> to, from |-> from, data |-> data]

UserToggledVideo(id, isEnabled) ==
    [type |-> "user-toggled-video", id |-> id, isEnabled |-> isEnabled]

UserDisconnected(id) == [type |-> "userDisconnected", id |-> id]

----------------------------------------------------------------------------
\* Initial state: the server is listening, nobody has connected

Init ==
    /\ rooms = EmptyMap
    /\ currentRoom = [c \in Conns |-> Null]
    /\ status = [c \in Conns |-> "idle"]
    /\ groups = [c \in Conns |-> {}]
    /\ out = NoOut
    /\ regs = 0
    /\ usedRooms = {}

\* io.on("connection"): a new socket, in the group of its own id
Connect(c) ==
    /\ status[c] = "idle"
    /\ status' = [status EXCEPT ![c] = "live"]
    /\ groups' = [groups EXCEPT ![c] = {c}]
    /\ currentRoom' = [currentRoom EXCEPT ![c] = Null]
    /\ out' = NoOut
    /\ UNCHANGED <<rooms, regs, usedRooms>>

\* socket.on("register")
Register(c, username, roomId) ==
    /\ status[c] = "live"
    /\ regs < MaxRegs
    /\ LET room == ResolveRoom(roomId)
           gr   == [groups EXCEPT ![c] = @ \cup {room}]
           rs   == PutPeer(EnsureRoom(rooms, room), room, c, NewPeer(username))
           o1   == Emit(NoOut, {c}, Introduction(rs[room]))
       IN  /\ currentRoom' = [currentRoom EXCEPT ![c] = room]
           /\ groups' = gr
           /\ rooms' = rs
           /\ out' = Emit(o1, ToOthers(status, gr, c, room),
                          NewUserConnected(c, username))
    /\ regs' = regs + 1
    /\ usedRooms' = usedRooms \cup {ResolveRoom(roomId)}
    /\ UNCHANGED status

Signal_AnyRoom(c, to, from, data) ==
    /\ status[c] = "live"
    /\ out' = IF \E r \in DOMAIN rooms : HasPeer(rooms, r, to)
              THEN Emit(NoOut, ToGroup(status, groups, to), SignalMsg(to, from, data))
              ELSE NoOut
    /\ UNCHANGED <<rooms, currentRoom, status, groups, regs, usedRooms>>

\* socket.on("signal")
Signal(c, to, from, data) ==
    /\ status[c] = "live"
    /\ out' = IF currentRoom[c] # Null /\ HasPeer(rooms, currentRoom[c], to)
              THEN Emit(NoOut, ToGroup(status, groups, to), SignalMsg(to, from, data))
              ELSE NoOut
    /\ UNCHANGED <<rooms, currentRoom, status, groups, regs, usedRooms>>

\* socket.on("user-toggle-video")
ToggleVideo(c, isEnabled) ==
    /\ status[c] = "live"
    /\ IF currentRoom[c] # Null /\ HasPeer(rooms, currentRoom[c], c)
       THEN /\ rooms' = [rooms EXCEPT ![currentRoom[c]][c].isVideoEnabled = isEnabled]
            /\ out' = Emit(NoOut, ToOthers(status, groups, c, currentRoom[c]),
                           UserToggledVideo(c, isEnabled))
       ELSE /\ out' = NoOut
            /\ UNCHANGED rooms
    /\ UNCHANGED <<currentRoom, status, groups, regs, usedRooms>>

\* the socket closes (it leaves its groups), then socket.on("disconnect") runs
Disconnect(c) ==
    /\ status[c] = "live"
    /\ LET st == [status EXCEPT ![c] = "gone"]
           gr == [groups EXCEPT ![c] = {}]
       IN  /\ status' = st
           /\ groups' = gr
           /\ IF currentRoom[c] # Null /\ HasRoom(rooms, currentRoom[c])
              THEN /\ rooms' = CleanupRoom(DeletePeer(rooms, currentRoom[c], c),
                                           currentRoom[c])
                   /\ out' = Emit(NoOut, ToOthers(st, gr, c, currentRoom[c]),
                                  UserDisconnected(c))
              ELSE /\ out' = NoOut
                   /\ UNCHANGED rooms
    /\ UNCHANGED <<currentRoom, regs, usedRooms>>

Next ==
    \/ \E c \in Conns : Connect(c)
    \/ \E c \in Conns, r \in RoomIdArgs : Register(c, ClientName(c), r)
    \/ \E c \in Conns, to \in Conns, from \in FromIds, d \in Payloads :
           Signal(c, to, from, d)
    \/ \E c \in Conns, b \in BOOLEAN : ToggleVideo(c, b)
    \/ \E c \in Conns : Disconnect(c)

Spec == Init /\ [][Next]_vars

----------------------------------------------------------------------------
\* Vocabulary of the properties

Live(c) == status[c] = "live"

Gone(c) == status[c] = "gone"

\* c has issued register at least once
HasRegistered(c) == currentRoom[c] # Null

\* the connection ids recorded in room r (none when r is not in the registry)
Members(rs, r) == IF r \in DOMAIN rs THEN DOMAIN rs[r] ELSE {}

\* the rooms whose member map has an entry for c
RoomsOf(c) == {r \in DOMAIN rooms : c \in DOMAIN rooms[r]}

\* how many copies of msg the sequence holds
Count(seq, msg) ==
    Cardinality({i \in DOMAIN seq : seq[i].type = msg.type /\ seq[i] = msg})

\* how many messages of the given type the sequence holds
CountType(seq, type) == Cardinality({i \in DOMAIN seq : seq[i].type = type})

----------------------------------------------------------------------------
\* C1: no room is present in the registry with an empty member map; after
\* the disconnect that removes a room's last entry the room is absent.
C1_NoEmptyRoom == \A r \in DOMAIN rooms : DOMAIN rooms[r] # {}

\* a registered connection has disconnected and its room has been removed
C1_Witness ==
    \E c \in Conns :
        Gone(c) /\ HasRegistered(c) /\ currentRoom[c] \notin DOMAIN rooms

\* C2: a connection id appears in at most one room's member map, also when
\* the connection registers more than once with different room ids.
C2_AtMostOneRoom == \A c \in Conns : Cardinality(RoomsOf(c)) <= 1

\* C5: no member map holds an entry keyed by a connection that has
\* disconnected, whatever registers it issued before.
C5_NoEntryOfGone ==
    \A r \in DOMAIN rooms : \A c \in DOMAIN rooms[r] : ~Gone(c)

\* C6: when every register so far named the same room r, the number of
\* entries of r equals the number of connections that have registered minus
\* the number of those that have disconnected (0 when r is absent).
C6_MemberCount ==
    \A r \in RoomNames :
        usedRooms \subseteq {r} =>
            Cardinality(Members(rooms, r)) =
                Cardinality({c \in Conns : HasRegistered(c)})
                - Cardinality({c \in Conns : HasRegistered(c) /\ Gone(c)})

\* three registers into one room by two connections, one of which has left
C6_Witness ==
    /\ Cardinality(usedRooms) = 1
    /\ regs = 3
    /\ Cardinality({c \in Conns : HasRegistered(c)}) = 2
    /\ Cardinality({c \in Conns : HasRegistered(c) /\ Gone(c)}) = 1
    /\ \A r \in usedRooms : Cardinality(Members(rooms, r)) = 1

\* x is a live connection whose recorded room is the room s is registered in
InRoomOf(x, s) ==
    Live(x) /\ HasRegistered(s) /\ currentRoom[x] = currentRoom[s]

\* C3: a signal(to = x, from, data) of connection s is delivered to x if and
\* only if x is a live connection whose room is the room s is registered in;
\* in every other case the handler delivers no message to anyone.
C3_SignalIffSameRoom ==
    [][\A s \in Conns, x \in Conns, y \in FromIds, d \in Payloads :
          Signal(s, x, y, d) =>
              IF InRoomOf(x, s)
              THEN Count(out'[x], SignalMsg(x, y, d)) = 1
              ELSE out' = NoOut]_vars

\* C4: a relayed signal is received exactly once by the connection it is
\* addressed to and by no other connection, whatever room ids were used.
C4_OnlyTarget ==
    \A r \in Conns : \A i \in DOMAIN out[r] :
        out[r][i].type = "signal" =>
            /\ out[r][i].to = r
            /\ Len(out[r]) = 1
            /\ \A o \in Conns \ {r} : out[o] = <<>>

\* C7: every register by c into room r yields exactly one introduction,
\* delivered to c only, holding r's member map after the insertion: c's own
\* entry with the supplied username and isVideoEnabled = FALSE, and exactly
\* the entries the other connections had in r, unchanged.  (Only register
\* steps change regs; the outer test merely skips the other steps early.)
C7_Introduction ==
    [][regs' # regs => \A c \in Conns, a \in RoomIdArgs :
          Register(c, ClientName(c), a) =>
              LET r == ResolveRoom(a)
              IN  /\ CountType(out'[c], "introduction") = 1
                  /\ \A o \in Conns \ {c} :
                         CountType(out'[o], "introduction") = 0
                  /\ \A i \in DOMAIN out'[c] :
                         out'[c][i].type = "introduction" =>
                             LET p == out'[c][i].peers
                             IN  /\ p = rooms'[r]
                                 /\ DOMAIN p = Members(rooms, r) \cup {c}
                                 /\ p[c] = [username |-> ClientName(c),
                                            isVideoEnabled |-> FALSE]
                                 /\ \A x \in Members(rooms, r) \ {c} :
                                        p[x] = rooms[r][x]]_vars

\* an introduction that lists another peer whose video is enabled
C7_Witness ==
    \E c \in Conns : \E i \in DOMAIN out[c] :
        /\ out[c][i].type = "introduction"
        /\ \E x \in DOMAIN out[c][i].peers \ {c} :
               out[c][i].peers[x].isVideoEnabled

\* C8: every register by c into room r delivers newUserConnected {c, username}
\* exactly once to every other live connection recorded in r's member map,
\* and to nobody else.
C8_NewUserToRoomOnly ==
    [][\A c \in Conns, a \in RoomIdArgs :
          Register(c, ClientName(c), a) =>
              \A x \in Conns :
                  Count(out'[x], NewUserConnected(c, ClientName(c))) =
                      IF x # c /\ Live(x) /\ x \in Members(rooms', ResolveRoom(a))
                      THEN 1 ELSE 0]_vars

\* C9: while c stays connected, the isVideoEnabled recorded for c in its
\* current room changes only by c's own toggle (so later introductions report
\* the most recent toggle); a toggle of c is never echoed to c and reaches
\* every other live member of c's room exactly once.
C9_ToggleVisible ==
    [][/\ \A c \in Conns :
              ( /\ Live(c)
                /\ HasPeer(rooms, currentRoom[c], c)
                /\ status'[c] = "live"
                /\ ~ \E b \in BOOLEAN : ToggleVideo(c, b) )
              => /\ HasPeer(rooms', currentRoom'[c], c)
                 /\ rooms'[currentRoom'[c]][c].isVideoEnabled
                        = rooms[currentRoom[c]][c].isVideoEnabled
       /\ \A c \in Conns, b \in BOOLEAN :
              (ToggleVideo(c, b) /\ HasRegistered(c)) =>
                  /\ Count(out'[c], UserToggledVideo(c, b)) = 0
                  /\ \A x \in Members(rooms, currentRoom[c]) \ {c} :
                         Live(x) => Count(out'[x], UserToggledVideo(c, b)) = 1]_vars

\* C10: when a registered connection c disconnects, its entry leaves its
\* current room and userDisconnected(c) reaches exactly once every remaining
\* live member of that room and nobody else (nobody when c was the last one).
C10_Disconnect ==
    [][\A c \in Conns :
          (Disconnect(c) /\ HasRegistered(c)) =>
              /\ c \notin Members(rooms', currentRoom[c])
              /\ \A x \in Conns :
                     Count(out'[x], UserDisconnected(c)) =
                         IF /\ x # c
                            /\ status'[x] = "live"
                            /\ x \in Members(rooms', currentRoom[c])
                         THEN 1 ELSE 0]_vars

\* C11: for a connection that has never registered, signal,
\* user-toggle-video and disconnect leave the registry unchanged and deliver
\* no message to anyone, whatever the others have registered and whatever
\* `to` names.
C11_UnregisteredNoOp ==
    [][\A c \in Conns :
          (Live(c) /\ ~HasRegistered(c)) =>
              ( ( \/ \E x \in Conns, y \in FromIds, d \in Payloads :
                         Signal(c, x, y, d)
                  \/ \E b \in BOOLEAN : ToggleVideo(c, b)
                  \/ Disconnect(c) )
                => (rooms' = rooms /\ out' = NoOut) )]_vars

\* a connection left without ever registering while a room had members
C11_Witness ==
    /\ \E c \in Conns : Gone(c) /\ ~HasRegistered(c)
    /\ \E r \in DOMAIN rooms : \E x \in DOMAIN rooms[r] : Live(x)
    /\ out = NoOut

MaxSignalRegs == 2

NextSignal ==
    \/ \E c \in Conns : Connect(c)
    \/ \E c \in Conns, r \in RoomIdArgs :
           regs < MaxSignalRegs /\ Register(c, ClientName(c), r)
    \/ \E c \in Conns, to \in Conns, from \in FromIds, d \in Payloads :
           Signal(c, to, from, d)
    \/ \E c \in Conns, b \in BOOLEAN : ToggleVideo(c, b)
    \/ \E c \in Conns : Disconnect(c)

SpecSignal == Init /\ [][NextSignal]_vars

\* C13: a signal event changes no state (registry, recorded rooms, group
\* subscriptions), relayed or dropped; whoever receives something receives
\* one message carrying exactly the (to, from, data) the sender supplied,
\* `from` included even when it is not the sender's id; a dropped signal
\* delivers nothing, to the sender neither.  (Written as "the consequence
\* holds or the step is no such signal", which is the implication from
\* Signal(s, x, y, d) with the cheap side evaluated first.)
C13_SignalFrame ==
    [][regs' = regs =>
          /\ \/ /\ rooms' = rooms
                /\ currentRoom' = currentRoom
                /\ groups' = groups
                /\ status' = status
             \/ \A s \in Conns, x \in Conns, y \in FromIds, d \in Payloads :
                    ~Signal(s, x, y, d)
          /\ \/ out' = NoOut
             \/ /\ \A x \in Conns, y \in FromIds, d \in Payloads :
                       \/ \A r \in Conns :
                              \/ out'[r] = <<>>
                              \/ out'[r] = <<[type |-> "signal", to |-> x,
                                              from |-> y, data |-> d]>>
                       \/ \A s \in Conns : ~Signal(s, x, y, d)
                /\ \A s \in Conns, x \in Conns :
                       \/ HasPeer(rooms, currentRoom[s], x)
                       \/ \A y \in FromIds, d \in Payloads :
                              ~Signal(s, x, y, d)]_vars

\* a relayed signal whose `from` names a connection that is not connected
C13_Witness ==
    \E r \in Conns : \E i \in DOMAIN out[r] :
        /\ out[r][i].type = "signal"
        /\ ~Live(out[r][i].from)
        /\ out[r][i].to = r

\* C14: when distinct connections register into one and the same room, any
\* two live members come to know each other.  An introduction is sent only
\* at one's own register, so at each such register the caller's
\* introduction must list every live member, and every live member must
\* receive newUserConnected for the caller.
C14_MutualAwareness ==
    [][regs' # regs => \A c \in Conns, a \in RoomIdArgs :
          ( /\ Register(c, ClientName(c), a)
            /\ ~HasRegistered(c)
            /\ usedRooms' = {ResolveRoom(a)} ) =>
              \A x \in Members(rooms, ResolveRoom(a)) \ {c} :
                  Live(x) =>
                      /\ \E i \in DOMAIN out'[c] :
                             /\ out'[c][i].type = "introduction"
                             /\ x \in DOMAIN out'[c][i].peers
                      /\ \E i \in DOMAIN out'[x] :
                             /\ out'[x][i].type = "newUserConnected"
                             /\ out'[x][i].id = c]_vars

\* C15: every live connection that has registered has an entry in the
\* member map of its recorded current room; so the guard of
\* user-toggle-video passes for it, and each toggle it issues sets its
\* isVideoEnabled to the given value and is emitted to the room's group.
C15_RegisteredHasEntry ==
    [][/\ \A c \in Conns :
              (status'[c] = "live" /\ currentRoom'[c] # Null) =>
                  /\ currentRoom'[c] \in DOMAIN rooms'
                  /\ c \in DOMAIN rooms'[currentRoom'[c]]
       /\ (regs' = regs /\ status' = status) =>
              \A c \in Conns, b \in BOOLEAN :
                  (HasRegistered(c) /\ ToggleVideo(c, b)) =>
                      /\ rooms'[currentRoom[c]][c].isVideoEnabled = b
                      /\ \A x \in Conns :
                             ( /\ Live(x)
                               /\ currentRoom[c] \in groups[x]
                               /\ c \notin groups[x] ) =>
                                 out'[x] = << [type |-> "user-toggled-video",
                                               id |-> c, isEnabled |-> b] >>]_vars

\* a registered connection has toggled its video on and another member of
\* its room has received the notification
C15_Witness ==
    \E c \in Conns :
        /\ Live(c)
        /\ HasRegistered(c)
        /\ rooms[currentRoom[c]][c].isVideoEnabled
        /\ \E x \in Members(rooms, currentRoom[c]) \ {c} :
               out[x] = << [type |-> "user-toggled-video",
                            id |-> c, isEnabled |-> TRUE] >>

\* C16: transport groups and registry agree: for every live connection C
\* and every room r of the registry, C is subscribed to the group named r
\* exactly when C has an entry in the member map of r.
C16_GroupsMatchRegistry ==
    \A c \in Conns : \A r \in DOMAIN rooms :
        Live(c) => (r \in groups[c] <=> c \in DOMAIN rooms[r])

\* C17: room isolation: whatever a handler run for connection c sends to
\* another connection x (newUserConnected, user-toggled-video,
\* userDisconnected, a relayed signal) goes only to an x whose recorded
\* current room is the recorded current room of c.
C17_RoomIsolation ==
    [][\A c \in Conns :
          ( \/ \E a \in RoomIdArgs : Register(c, ClientName(c), a)
            \/ \E x \in Conns, y \in FromIds, d \in Payloads : Signal(c, x, y, d)
            \/ \E b \in BOOLEAN : ToggleVideo(c, b)
            \/ Disconnect(c) ) =>
              \A x \in Conns \ {c} :
                  out'[x] # <<>> => currentRoom'[x] = currentRoom'[c]]_vars

\* x has been told about peer y: y appears in an introduction x received,
\* or x received newUserConnected with id y
ToldAbout(x, y) ==
    \E i \in DOMAIN out[x] :
        \/ out[x][i].type = "introduction" /\ y \in DOMAIN out[x][i].peers
        \/ out[x][i].type = "newUserConnected" /\ out[x][i].id = y

\* C18: join and leave notifications are paired: when x has been told
\* about peer y and y disconnects while x is still connected, x receives
\* userDisconnected(y).
C18_LeavePaired ==
    [][status' # status =>
          \A y \in Conns :
              Disconnect(y) =>
                  \A x \in Conns \ {y} :
                      (Live(x) /\ ToldAbout(x, y)) =>
                          \E i \in DOMAIN out'[x] :
                              /\ out'[x][i].type = "userDisconnected"
                              /\ out'[x][i].id = y]_vars

====
